---- MODULE Spec2Model ----
(***************************************************************************)
(* Model of the auto-assign-copilot action: the policy helpers of          *)
(* helpers.js and one run of the workflow (executeWorkflow), split at its  *)
(* awaits, against an issue tracker holding open and closed issues; runs   *)
(* that follow one another; and the release cleanup (release-cleanup.js,   *)
(* scripts/cleanup-releases.js).                                           *)
(***************************************************************************)
EXTENDS Integers, Sequences, FiniteSets, TLC

\* ------------------------------------------------------------------ bounds
MaxOpen == 2            \* open issues in the tracker at the start of a run
MaxClosed == 2          \* closed issues in the tracker
MaxSubIssues == 1       \* sub-issues linked to one open issue
MaxThreshold == 2       \* refactor-threshold values 1..MaxThreshold
MaxCooldownDays == 1    \* refactor-cooldown-days values and ages of closed issues, in days
MaxWaitSeconds == 1     \* wait-seconds values 0..MaxWaitSeconds
MaxGiven == 3           \* issues the action assigns or creates over a sequence of runs
MaxReleases == 4        \* releases of the repository the cleanup script lists
TicksPerMonth == 2      \* clock ticks in one month of release age

\* --------------------------------------------------------- program constants
MS_PER_DAY == 86400000
LabelPageSize == 50
OpenPageSize == 100
CooldownFetchCount == 20
SubIssuesPerPage == 100
ReleasesPerPage == 100

CopilotLogin == "copilot-swe-agent"
Human == "human"
RefactorLabel == "refactor"
AutoMarker == "[AUTO]"

\* The label the skip-labels input names and the one required-label names.
SkipLabel == "no-ai"
ReadyLabel == "copilot-ready"

Null == [null |-> TRUE]

Min(a, b) == IF a < b THEN a ELSE b

\* array.slice(0, n)
Take(s, n) == SubSeq(s, 1, Min(n, Len(s)))

\* ------------------------------------------------------------ helpers.js

\* title.includes('[AUTO]'); a title is a sequence of words
isAutoCreatedRefactorIssue(issue) ==
  \E i \in DOMAIN issue.title : issue.title[i] = AutoMarker

\* skipLabels.find(l => issueLabels.includes(l)): first match in skip-list order
RECURSIVE FirstSkipLabel(_, _)
FirstSkipLabel(skipLabels, issueLabels) ==
  IF skipLabels = <<>> THEN ""
  ELSE IF Head(skipLabels) \in issueLabels THEN Head(skipLabels)
       ELSE FirstSkipLabel(Tail(skipLabels), issueLabels)

\* the sub-issue test comes before the assignee test
shouldSkipIssue_SubIssuesFirst(issue, allowParentIssues, skipLabels) ==
  IF issue.hasSubIssues /\ ~allowParentIssues
    THEN [shouldSkip |-> TRUE, reason |-> "has sub-issues", label |-> ""]
  ELSE IF issue.isAssigned
    THEN [shouldSkip |-> TRUE, reason |-> "already assigned", label |-> ""]
  ELSE IF Len(skipLabels) > 0 /\ FirstSkipLabel(skipLabels, issue.labels) # ""
    THEN [shouldSkip |-> TRUE, reason |-> "has skip label",
          label |-> FirstSkipLabel(skipLabels, issue.labels)]
  ELSE [shouldSkip |-> FALSE, reason |-> "null", label |-> ""]

shouldSkipIssue(issue, allowParentIssues, skipLabels) ==
  IF issue.isAssigned
    THEN [shouldSkip |-> TRUE, reason |-> "already assigned", label |-> ""]
  ELSE IF issue.hasSubIssues /\ ~allowParentIssues
    THEN [shouldSkip |-> TRUE, reason |-> "has sub-issues", label |-> ""]
  ELSE IF Len(skipLabels) > 0 /\ FirstSkipLabel(skipLabels, issue.labels) # ""
    THEN [shouldSkip |-> TRUE, reason |-> "has skip label",
          label |-> FirstSkipLabel(skipLabels, issue.labels)]
  ELSE [shouldSkip |-> FALSE, reason |-> "null", label |-> ""]

\* the mode is tested before the force flag
shouldAssignNewIssue_ModeBeforeForce(assignedIssues, m, f) ==
  IF Len(assignedIssues) = 0
    THEN [shouldAssign |-> TRUE, reason |-> "Copilot has no assigned issues"]
  ELSE IF m = "refactor"
    THEN IF \E i \in DOMAIN assignedIssues :
              RefactorLabel \in assignedIssues[i].labels
           THEN [shouldAssign |-> FALSE,
                 reason |-> "Copilot already has a refactor issue assigned"]
           ELSE [shouldAssign |-> FALSE,
                 reason |-> "Copilot is working on other issues, skipping refactor creation"]
  ELSE IF f
    THEN [shouldAssign |-> TRUE, reason |-> "Force flag is set"]
  ELSE [shouldAssign |-> FALSE,
        reason |-> "Copilot already has assigned issues and force=false"]

\* every assigned issue, instead of some, must carry the refactor label
shouldAssignNewIssue_EveryRefactor(assignedIssues, m, f) ==
  IF Len(assignedIssues) = 0
    THEN [shouldAssign |-> TRUE, reason |-> "Copilot has no assigned issues"]
  ELSE IF f
    THEN [shouldAssign |-> TRUE, reason |-> "Force flag is set"]
  ELSE IF m = "refactor"
    THEN IF \A i \in DOMAIN assignedIssues :
              RefactorLabel \in assignedIssues[i].labels
           THEN [shouldAssign |-> FALSE,
                 reason |-> "Copilot already has a refactor issue assigned"]
           ELSE [shouldAssign |-> FALSE,
                 reason |-> "Copilot is working on other issues, skipping refactor creation"]
  ELSE [shouldAssign |-> FALSE,
        reason |-> "Copilot already has assigned issues and force=false"]

shouldAssignNewIssue(assignedIssues, m, f) ==
  IF Len(assignedIssues) = 0
    THEN [shouldAssign |-> TRUE, reason |-> "Copilot has no assigned issues"]
  ELSE IF f
    THEN [shouldAssign |-> TRUE, reason |-> "Force flag is set"]
  ELSE IF m = "refactor"
    THEN IF \E i \in DOMAIN assignedIssues :
              RefactorLabel \in assignedIssues[i].labels
           THEN [shouldAssign |-> FALSE,
                 reason |-> "Copilot already has a refactor issue assigned"]
           ELSE [shouldAssign |-> FALSE,
                 reason |-> "Copilot is working on other issues, skipping refactor creation"]
  ELSE [shouldAssign |-> FALSE,
        reason |-> "Copilot already has assigned issues and force=false"]

\* only an assignment to Copilot counts as assigned
parseIssueData_AgentOnly(issue) ==
  [number |-> issue.number,
   title |-> issue.title,
   isAssigned |-> CopilotLogin \in issue.assignees,
   hasSubIssues |-> issue.trackedIssues > 0,
   isRefactorIssue |-> RefactorLabel \in issue.labels,
   labels |-> issue.labels]

parseIssueData(issue) ==
  [number |-> issue.number,
   title |-> issue.title,
   isAssigned |-> Cardinality(issue.assignees) > 0,
   hasSubIssues |-> issue.trackedIssues > 0,
   isRefactorIssue |-> RefactorLabel \in issue.labels,
   labels |-> issue.labels]

RECURSIVE findAssignableIssue(_, _, _)
findAssignableIssue(issues, allowParentIssues, skipLabels) ==
  IF issues = <<>> THEN Null
  ELSE IF ~shouldSkipIssue(parseIssueData(Head(issues)),
                           allowParentIssues, skipLabels).shouldSkip
         THEN parseIssueData(Head(issues))
       ELSE findAssignableIssue(Tail(issues), allowParentIssues, skipLabels)

\* the required label is never looked at
hasRequiredLabel_Ignored(issue, required) == TRUE

\* vacuously true without a required label, else exact membership
hasRequiredLabel(issue, required) ==
  required = "" \/ required \in issue.labels

\* findAssignableIssue as the workflow calls it, with the required label as
\* fourth argument: issues without the required label are passed over
findAssignableIssueWithRequiredLabel(issues, allowParentIssues, skipLabels, required) ==
  findAssignableIssue(
    SelectSeq(issues, LAMBDA i : hasRequiredLabel(i, required)),
    allowParentIssues, skipLabels)

\* the slice to the first count entries is left out
hasRecentRefactorIssue_WholeWindow(closed, count) ==
  IF Len(closed) = 0 THEN FALSE
  ELSE \E i \in DOMAIN closed : RefactorLabel \in closed[i].labels

hasRecentRefactorIssue(closed, count) ==
  IF Len(closed) = 0 THEN FALSE
  ELSE \E i \in 1..Len(Take(closed, count)) : RefactorLabel \in closed[i].labels

\* only the most recently closed issue is looked at
RecentAutoCreatedRefactor_FirstOnly(closed, cooldownDays, now) ==
  IF /\ Len(closed) > 0
     /\ RefactorLabel \in closed[1].labels
     /\ isAutoCreatedRefactorIssue(closed[1])
     /\ now - closed[1].closedAt < cooldownDays * MS_PER_DAY
    THEN 1 ELSE 0

\* closedIssues.find(...): index of the first auto-created refactor issue
\* closed less than cooldownDays ago, 0 when there is none
RecentAutoCreatedRefactor(closed, cooldownDays, now) ==
  LET hit == {i \in DOMAIN closed :
                /\ RefactorLabel \in closed[i].labels
                /\ isAutoCreatedRefactorIssue(closed[i])
                /\ now - closed[i].closedAt < cooldownDays * MS_PER_DAY}
  IN IF hit = {} THEN 0 ELSE CHOOSE i \in hit : \A j \in hit : i <= j

shouldWaitForCooldown(closed, cooldownDays, now) ==
  IF Len(closed) = 0
    THEN [shouldWait |-> FALSE, reason |-> "No closed issues found",
          number |-> 0, daysSinceClosed |-> 0, daysRemaining |-> 0]
  ELSE LET k == RecentAutoCreatedRefactor(closed, cooldownDays, now)
       IN IF k # 0
            THEN LET since == (now - closed[k].closedAt) \div MS_PER_DAY
                 IN [shouldWait |-> TRUE,
                     reason |-> "Auto-created refactor issue was closed recently",
                     number |-> closed[k].number,
                     daysSinceClosed |-> since,
                     daysRemaining |-> cooldownDays - since]
            ELSE [shouldWait |-> FALSE,
                  reason |-> "No auto-created refactor issue found closed within the cooldown period",
                  number |-> 0, daysSinceClosed |-> 0, daysRemaining |-> 0]


\* ----------------------------------------------------- release-cleanup.js

\* a tag name: an optional prefix and dot-separated numbers, "v3.10.0" is
\* [prefix |-> "v", parts |-> <<3, 10, 0>>]
Tag(prefix, parts) == [prefix |-> prefix, parts |-> parts]

\* the leading v or V is removed, then major.minor.patch must match
parseVersion(versionString) ==
  IF /\ versionString.prefix \in {"", "v", "V"}
     /\ Len(versionString.parts) = 3
    THEN [major |-> versionString.parts[1],
          minor |-> versionString.parts[2],
          patch |-> versionString.parts[3]]
    ELSE Null

\* new Date() of the cleanup, in ticks
ReleaseNow == 7 * TicksPerMonth

\* date < (now with its month moved back by months)
isOlderThanMonths(dateString, months) ==
  dateString < ReleaseNow - months * TicksPerMonth

\* the sort comparator puts a before b
VersionBefore(a, b) ==
  IF a.major # b.major THEN a.major > b.major
  ELSE IF a.minor # b.minor THEN a.minor > b.minor
  ELSE a.patch > b.patch

RECURSIVE InsertByVersion(_, _)
InsertByVersion(r, sorted) ==
  IF sorted = <<>> THEN <<r>>
  ELSE IF VersionBefore(Head(sorted).version, r.version)
    THEN <<Head(sorted)>> \o InsertByVersion(r, Tail(sorted))
    ELSE <<r>> \o sorted

\* Array.prototype.sort (stable) by major, minor, patch, descending
RECURSIVE SortByVersion(_)
SortByVersion(rs) ==
  IF rs = <<>> THEN <<>>
  ELSE InsertByVersion(Head(rs), SortByVersion(Tail(rs)))

\* the releases with their parsed version, invalid tags filtered out, sorted
parsedReleases(rs) ==
  SortByVersion(
    SelectSeq([i \in DOMAIN rs |->
                 [tag_name |-> rs[i].tag_name,
                  published_at |-> rs[i].published_at,
                  version |-> parseVersion(rs[i].tag_name)]],
              LAMBDA r : r.version # Null))

\* majorGroups.get(major)
majorGroup(parsed, major) ==
  SelectSeq(parsed, LAMBDA r : r.version.major = major)

RECURSIVE SortDescending(_)
SortDescending(S) ==
  IF S = {} THEN <<>>
  ELSE LET m == CHOOSE x \in S : \A y \in S : y <= x
       IN <<m>> \o SortDescending(S \ {m})

\* the three highest major versions, highest first
topMajors(parsed) ==
  Take(SortDescending({parsed[i].version.major : i \in DOMAIN parsed}), 3)

\* every release but the newest of a kept major is protected by age only
protectedReleases_NewestOnly(parsed) ==
  {parsed[i].tag_name : i \in {j \in DOMAIN parsed :
     /\ ~isOlderThanMonths(parsed[j].published_at, 1)
     /\ \A k \in DOMAIN parsed :
          ~VersionBefore(parsed[k].version, parsed[j].version)}}

\* tag names of the releases less than 1 month old
protectedReleases(parsed) ==
  {parsed[i].tag_name : i \in {j \in DOMAIN parsed :
     ~isOlderThanMonths(parsed[j].published_at, 1)}}

releasesToKeepCount(index) ==
  IF index = 0 THEN 3
  ELSE IF index = 1 THEN 2
  ELSE 1

\* slice(1, count + 1): the highest release of the major is passed over
topReleases_SkipHighest(group, count) ==
  SubSeq(group, 2, Min(count + 1, Len(group)))

\* releases.slice(0, releasesToKeepCount)
topReleases(group, count) == Take(group, count)

filterReleasesToKeep(rs) ==
  IF rs = <<>> THEN <<>>
  ELSE
    LET parsed == parsedReleases(rs)
        majors == topMajors(parsed)
        kept == UNION {
          LET top == topReleases(majorGroup(parsed, majors[k]),
                                 releasesToKeepCount(k - 1))
          IN {top[i].tag_name : i \in DOMAIN top} : k \in DOMAIN majors}
        keep == protectedReleases(parsed) \cup kept
    IN SelectSeq(rs, LAMBDA r : r.tag_name \in keep)

\* ----------------------------------------------------------------- state
VARIABLES
  \* parameters of the run (index.js inputs, context.eventName)
  eventName, mode, labelOverride, requiredLabel, force, dryRun,
  allowParentIssues, skipLabels, refactorThreshold, createRefactorIssue,
  waitSeconds, refactorCooldownDays,
  \* the issue tracker
  openIssues,       \* open issues, creation time ascending
  closedIssues,     \* closed issues, last update descending
  \* the run
  pc,               \* position of the run in workflow.js
  slept,            \* seconds the grace period has waited
  effectiveMode,
  bypassCooldown,   \* argument of the running handleRefactorMode
  handovers,        \* calls of handleRefactorMode made by assignNextIssue
  labelIndex,       \* position of assignNextIssue in labelPriority
  phase,            \* which caller is awaiting enrichWithSubIssues
  batch,            \* the issues being enriched
  pending,          \* indices of batch whose sub-issue lookup is in flight
  issueToAssign,
  result,           \* value the run returns
  queries,          \* tracker reads issued so far
  mutations,        \* tracker mutations issued so far, in order
  outputs,          \* action outputs set by run() of index.js
  \* policy evaluation (PolicySpec)
  call, ret,
  \* a run and its rerun with the dry-run flag flipped (PreviewSpec)
  trace,            \* states of the first run up to its decision
  firstRun,         \* how the first run ended, Null while it is running
  \* scripts/cleanup-releases.js (CleanupSpec)
  releases,         \* the releases of the repository
  releasesToKeep,
  releasesToDelete, \* the releases the script has still to delete
  deleted           \* the deletions the script has attempted, in order

params == <<eventName, mode, labelOverride, requiredLabel, force, dryRun,
            allowParentIssues, skipLabels, refactorThreshold,
            createRefactorIssue, waitSeconds, refactorCooldownDays>>
tracker == <<openIssues, closedIssues>>
run == <<pc, slept, effectiveMode, bypassCooldown, handovers, labelIndex,
         phase, batch, pending, issueToAssign, result, queries, mutations,
         outputs>>
policy == <<call, ret>>
preview == <<trace, firstRun>>
cleanup == <<releases, releasesToKeep, releasesToDelete, deleted>>
vars == <<params, tracker, run, policy, preview, cleanup>>

\* new Date() of the run
Now == (MaxCooldownDays + 1) * MS_PER_DAY

ManualTitle == <<"fix", "things">>
\* `refactor: codebase improvements [AUTO] - ${timestamp}`
AutoTitle == <<"refactor:", "codebase", "improvements", AutoMarker>>

\* ------------------------------------------------------- tracker queries

\* a GraphQL issue node (ISSUE_FIELDS); trackedIssues is the unreliable
\* GraphQL count that enrichWithSubIssues overwrites
Node(issue) ==
  [number |-> issue.number, title |-> issue.title,
   assignees |-> issue.assignees, labels |-> issue.labels,
   trackedIssues |-> 0]

Nodes(s) == [i \in DOMAIN s |-> Node(s[i])]

\* issues(first: n, states: OPEN, labels: [label], orderBy CREATED_AT ASC)
OpenWithLabel(label, n) ==
  Nodes(Take(SelectSeq(openIssues, LAMBDA i : label \in i.labels), n))

\* issues(first: 100, states: OPEN ...)
AllOpen == Nodes(Take(openIssues, OpenPageSize))

\* issues(first: n, states: CLOSED, orderBy UPDATED_AT DESC)
RecentlyClosed(n) == Take(closedIssues, n)

\* GET /repos/{owner}/{repo}/issues/{issue_number}/sub_issues, per_page 100
SubIssuesOf(number) ==
  LET i == CHOOSE j \in DOMAIN openIssues : openIssues[j].number = number
  IN Min(openIssues[i].subIssues, SubIssuesPerPage)

AllNumbers ==
  {openIssues[i].number : i \in DOMAIN openIssues}
    \cup {closedIssues[i].number : i \in DOMAIN closedIssues}

NextNumber ==
  IF AllNumbers = {} THEN 1
  ELSE 1 + CHOOSE n \in AllNumbers : \A m \in AllNumbers : m <= n

\* documentation ahead of bug
labelPriority_DocumentationFirst ==
  IF labelOverride # "" THEN <<labelOverride>>
  ELSE <<"documentation", "bug", "refactor", "enhancement">>

\* the four priority labels are searched after the override label
labelPriority_OverrideFirst ==
  IF labelOverride # ""
    THEN <<labelOverride, "bug", "documentation", "refactor", "enhancement">>
  ELSE <<"bug", "documentation", "refactor", "enhancement">>

labelPriority ==
  IF labelOverride # "" THEN <<labelOverride>>
  ELSE <<"bug", "documentation", "refactor", "enhancement">>

PriorityLabelSet == {labelPriority[i] : i \in DOMAIN labelPriority}

\* ------------------------------------------------------------ workflow.js

Mutation(op, number, ok) == [op |-> op, number |-> number, ok |-> ok]

Return(value) ==
  /\ pc' = "done"
  /\ result' = value

Throw ==
  /\ pc' = "failed"
  /\ result' = Null

\* the grace period is not waited for
GraceWait_NoWait ==
  /\ pc = "start"
  /\ slept' = 0
  /\ pc' = "determineMode"
  /\ UNCHANGED <<preview, cleanup, outputs, params, tracker, policy, effectiveMode, bypassCooldown,
                 handovers, labelIndex, phase, batch, pending, issueToAssign,
                 result, queries, mutations>>

\* grace period at the top of the run
GraceWait ==
  /\ pc = "start"
  /\ slept' = IF eventName = "issues" /\ waitSeconds > 0 THEN waitSeconds ELSE 0
  /\ pc' = "determineMode"
  /\ UNCHANGED <<preview, cleanup, outputs, params, tracker, policy, effectiveMode, bypassCooldown,
                 handovers, labelIndex, phase, batch, pending, issueToAssign,
                 result, queries, mutations>>

\* Step 0: determine the mode from the recently closed issues
DetermineMode ==
  /\ pc = "determineMode"
  /\ IF eventName = "issues" /\ mode = "auto"
       THEN /\ queries' = queries + 1
            /\ effectiveMode' =
                 IF ~hasRecentRefactorIssue(RecentlyClosed(refactorThreshold + 1),
                                            refactorThreshold)
                   THEN "refactor" ELSE mode
       ELSE /\ queries' = queries
            /\ effectiveMode' = mode
  /\ pc' = "findBot"
  /\ UNCHANGED <<preview, cleanup, outputs, params, tracker, policy, slept, bypassCooldown, handovers,
                 labelIndex, phase, batch, pending, issueToAssign, result,
                 mutations>>

\* Step 1: the Copilot bot among the assignable actors
FindCopilotBot ==
  /\ pc = "findBot"
  /\ queries' = queries + 1
  /\ \E found \in BOOLEAN :
       IF found
         THEN pc' = "checkCurrent" /\ result' = result
         ELSE Throw
  /\ UNCHANGED <<preview, cleanup, outputs, params, tracker, policy, slept, effectiveMode, bypassCooldown,
                 handovers, labelIndex, phase, batch, pending, issueToAssign,
                 mutations>>

\* the open issues are filtered by the wrong assignee
CurrentIssues_WrongActor ==
  SelectSeq(AllOpen, LAMBDA i : Human \in i.assignees)

\* issues assigned to Copilot among all open issues
CurrentIssues ==
  SelectSeq(AllOpen, LAMBDA i : CopilotLogin \in i.assignees)

\* Step 2 (current work) and Step 3 (routing by effective mode)
CheckCurrentWork ==
  /\ pc = "checkCurrent"
  /\ queries' = queries + 1
  /\ IF /\ Len(CurrentIssues) > 0
        /\ ~shouldAssignNewIssue(CurrentIssues, effectiveMode, force).shouldAssign
       THEN /\ Return(Null)
            /\ UNCHANGED <<bypassCooldown, labelIndex>>
       ELSE IF effectiveMode = "refactor"
         THEN /\ pc' = "refactorQuery"
              /\ bypassCooldown' = (eventName = "issues" /\ mode = "auto")
              /\ UNCHANGED <<labelIndex, result>>
         ELSE /\ pc' = "labelQuery"
              /\ labelIndex' = 1
              /\ UNCHANGED <<bypassCooldown, result>>
  /\ UNCHANGED <<preview, cleanup, outputs, params, tracker, policy, slept, effectiveMode, handovers,
                 phase, batch, pending, issueToAssign, mutations>>

\* start of enrichWithSubIssues: one lookup per issue, all in flight
Enrich(issues, caller) ==
  /\ batch' = issues
  /\ pending' = DOMAIN issues
  /\ phase' = caller
  /\ pc' = "enrich"

\* handleRefactorMode: open issues labelled refactor
QueryRefactorIssues ==
  /\ pc = "refactorQuery"
  /\ queries' = queries + 1
  /\ Enrich(OpenWithLabel(RefactorLabel, OpenPageSize), "refactor")
  /\ UNCHANGED <<preview, cleanup, outputs, params, tracker, policy, slept, effectiveMode, bypassCooldown,
                 handovers, labelIndex, issueToAssign, result, mutations>>

\* a failed sub-issue request is not caught
SubIssueLookup_FailureAborts ==
  /\ \E i \in pending :
       \E ok \in BOOLEAN :
         IF ok
           THEN /\ pc = "enrich"
                /\ batch' = [batch EXCEPT ![i].trackedIssues =
                               SubIssuesOf(batch[i].number)]
                /\ pending' = pending \ {i}
                /\ UNCHANGED <<pc, result>>
           ELSE /\ pc = "enrich"
                /\ Throw
                /\ UNCHANGED <<batch, pending>>
  /\ queries' = queries + 1
  /\ UNCHANGED <<preview, cleanup, outputs, params, tracker, policy, slept, effectiveMode,
                 bypassCooldown, handovers, labelIndex, phase, issueToAssign,
                 mutations>>

\* the enriched issues are collected in the order their lookups complete
SubIssueLookup_InCompletionOrder ==
  /\ pc = "enrich"
  /\ \E i \in pending :
       \E ok \in BOOLEAN :
         LET c == Len(batch) - Cardinality(pending)
             enriched == [batch[i] EXCEPT !.trackedIssues =
                            IF ok THEN SubIssuesOf(batch[i].number) ELSE 0]
         IN /\ batch' = SubSeq(batch, 1, c) \o <<enriched>>
                          \o SubSeq(batch, c + 1, i - 1)
                          \o SubSeq(batch, i + 1, Len(batch))
            /\ pending' = (c + 2)..Len(batch)
  /\ queries' = queries + 1
  /\ UNCHANGED <<preview, cleanup, outputs, params, tracker, policy, pc, slept, effectiveMode,
                 bypassCooldown, handovers, labelIndex, phase, issueToAssign,
                 result, mutations>>

\* getSubIssuesCount of one issue completes; a failed request counts 0
SubIssueLookup ==
  /\ pc = "enrich"
  /\ \E i \in pending :
       /\ \E ok \in BOOLEAN :
            batch' = [batch EXCEPT ![i].trackedIssues =
                        IF ok THEN SubIssuesOf(batch[i].number) ELSE 0]
       /\ pending' = pending \ {i}
  /\ queries' = queries + 1
  /\ UNCHANGED <<preview, cleanup, outputs, params, tracker, policy, pc, slept, effectiveMode,
                 bypassCooldown, handovers, labelIndex, phase, issueToAssign,
                 result, mutations>>

\* the cooldown check is always bypassed
EnterCreate_AlwaysBypass(bypass) ==
  pc' = "findLabel"

\* the bypass flag is not honoured
EnterCreate_NoBypass(bypass) ==
  pc' = "cooldown"

\* createRefactorIssueFunc is entered: the cooldown check is skipped on bypass
EnterCreate(bypass) ==
  pc' = IF bypass THEN "findLabel" ELSE "cooldown"

\* create-refactor-issue is not consulted
SelectRefactorIssue_CreatesAnyway ==
  /\ pc = "enrich" /\ pending = {} /\ phase = "refactor"
  /\ LET found == findAssignableIssueWithRequiredLabel(
                    batch, allowParentIssues, skipLabels, requiredLabel)
     IN IF found # Null
          THEN /\ issueToAssign' = found
               /\ pc' = "assign"
               /\ result' = result
          ELSE /\ issueToAssign' = issueToAssign
               /\ EnterCreate(bypassCooldown) /\ result' = result
  /\ UNCHANGED <<preview, cleanup, outputs, params, tracker, policy, slept, effectiveMode,
                 bypassCooldown, handovers, labelIndex, phase, batch, pending,
                 queries, mutations>>

\* with creation disabled, refactor handling hands back to the label search
SelectRefactorIssue_HandsBack ==
  /\ pc = "enrich" /\ pending = {} /\ phase = "refactor"
  /\ LET found == findAssignableIssueWithRequiredLabel(
                    batch, allowParentIssues, skipLabels, requiredLabel)
     IN IF found # Null
          THEN /\ issueToAssign' = found
               /\ pc' = "assign"
               /\ UNCHANGED <<result, labelIndex>>
          ELSE /\ issueToAssign' = issueToAssign
               /\ IF ~createRefactorIssue
                    THEN pc' = "labelQuery" /\ labelIndex' = 1
                    ELSE EnterCreate(bypassCooldown) /\ labelIndex' = labelIndex
               /\ result' = result
  /\ UNCHANGED <<preview, cleanup, outputs, params, tracker, policy, slept, effectiveMode, bypassCooldown,
                 handovers, phase, batch, pending, queries, mutations>>

\* handleRefactorMode after the lookups
SelectRefactorIssue ==
  /\ pc = "enrich" /\ pending = {} /\ phase = "refactor"
  /\ LET found == findAssignableIssueWithRequiredLabel(
                    batch, allowParentIssues, skipLabels, requiredLabel)
     IN IF found # Null
          THEN /\ issueToAssign' = found
               /\ pc' = "assign"
               /\ result' = result
          ELSE /\ issueToAssign' = issueToAssign
               /\ IF ~createRefactorIssue
                    THEN Return(Null)
                    ELSE EnterCreate(bypassCooldown) /\ result' = result
  /\ UNCHANGED <<preview, cleanup, outputs, params, tracker, policy, slept, effectiveMode, bypassCooldown,
                 handovers, labelIndex, phase, batch, pending, queries,
                 mutations>>

\* createRefactorIssueFunc: cooldown check over the 20 last closed issues
CheckCooldown ==
  /\ pc = "cooldown"
  /\ queries' = queries + 1
  /\ IF shouldWaitForCooldown(RecentlyClosed(CooldownFetchCount),
                              refactorCooldownDays, Now).shouldWait
       THEN Return(Null)
       ELSE pc' = "findLabel" /\ result' = result
  /\ UNCHANGED <<preview, cleanup, outputs, params, tracker, policy, slept, effectiveMode, bypassCooldown,
                 handovers, labelIndex, phase, batch, pending, issueToAssign,
                 mutations>>

\* the refactor label is looked up only after the issue was created
FindRefactorLabel_AfterCreate ==
  /\ pc = "findLabel"
  /\ queries' = queries + 1
  /\ \E found \in BOOLEAN :
       IF found
         THEN /\ pc' = "createIssue" /\ result' = result
              /\ UNCHANGED <<openIssues, mutations>>
         ELSE /\ Throw
              /\ openIssues' = Append(openIssues,
                   [number |-> NextNumber, title |-> AutoTitle,
                    assignees |-> {CopilotLogin}, labels |-> {},
                    subIssues |-> 0])
              /\ mutations' = Append(mutations,
                                     Mutation("createIssue", NextNumber, TRUE))
  /\ UNCHANGED <<preview, cleanup, outputs, params, closedIssues, policy, slept, effectiveMode,
                 bypassCooldown, handovers, labelIndex, phase, batch, pending,
                 issueToAssign>>

\* a dry run returns its mock issue before the label is looked up
FindRefactorLabel_DryRunSkipsLookup ==
  /\ pc = "findLabel"
  /\ IF dryRun
       THEN /\ Return([number |-> 0, title |-> AutoTitle, created |-> TRUE])
            /\ queries' = queries
       ELSE /\ queries' = queries + 1
            /\ \E found \in BOOLEAN :
                 IF found
                   THEN pc' = "createIssue" /\ result' = result
                   ELSE Throw
  /\ UNCHANGED <<preview, cleanup, outputs, params, tracker, policy, slept, effectiveMode, bypassCooldown,
                 handovers, labelIndex, phase, batch, pending, issueToAssign,
                 mutations>>

\* createRefactorIssueFunc: id of the refactor label
FindRefactorLabel ==
  /\ pc = "findLabel"
  /\ queries' = queries + 1
  /\ \E found \in BOOLEAN :
       IF found
         THEN pc' = "createIssue" /\ result' = result
         ELSE Throw
  /\ UNCHANGED <<preview, cleanup, outputs, params, tracker, policy, slept, effectiveMode, bypassCooldown,
                 handovers, labelIndex, phase, batch, pending, issueToAssign,
                 mutations>>

\* the mock issue a dry run returns instead of creating one
DryRunIssue == [number |-> 0, title |-> AutoTitle, created |-> TRUE]

\* createRefactorIssueFunc: createIssue with Copilot as assignee
CreateIssue ==
  /\ pc = "createIssue"
  /\ IF dryRun
       THEN /\ Return(DryRunIssue)
            /\ UNCHANGED <<openIssues, mutations>>
       ELSE /\ openIssues' = Append(openIssues,
                 [number |-> NextNumber, title |-> AutoTitle,
                  assignees |-> {CopilotLogin}, labels |-> {},
                  subIssues |-> 0])
            /\ mutations' = Append(mutations,
                                   Mutation("createIssue", NextNumber, TRUE))
            /\ pc' = "addLabel"
            /\ result' = result
  /\ UNCHANGED <<preview, cleanup, outputs, params, closedIssues, policy, slept, effectiveMode,
                 bypassCooldown, handovers, labelIndex, phase, batch, pending,
                 issueToAssign, queries>>

\* a failed addLabelsToLabelable is not caught
AddRefactorLabel_FailureThrows ==
  /\ pc = "addLabel"
  /\ LET created == mutations[Len(mutations)].number
         k == CHOOSE j \in DOMAIN openIssues : openIssues[j].number = created
     IN \E ok \in BOOLEAN :
          /\ mutations' = Append(mutations, Mutation("addLabels", created, ok))
          /\ openIssues' =
               IF ok THEN [openIssues EXCEPT ![k].labels = @ \cup {RefactorLabel}]
               ELSE openIssues
          /\ IF ok
               THEN Return([number |-> created, title |-> AutoTitle,
                            created |-> TRUE])
               ELSE Throw
  /\ UNCHANGED <<preview, cleanup, outputs, params, closedIssues, policy, slept, effectiveMode,
                 bypassCooldown, handovers, labelIndex, phase, batch, pending,
                 issueToAssign, queries>>

\* the created issue is handed to handleAssignment as well
AddRefactorLabel_ThenAssign ==
  /\ pc = "addLabel"
  /\ LET created == mutations[Len(mutations)].number
         k == CHOOSE j \in DOMAIN openIssues : openIssues[j].number = created
     IN /\ \E ok \in BOOLEAN :
             /\ mutations' = Append(mutations, Mutation("addLabels", created, ok))
             /\ openIssues' =
                  IF ok THEN [openIssues EXCEPT ![k].labels = @ \cup {RefactorLabel}]
                  ELSE openIssues
        /\ issueToAssign' = parseIssueData(Node(openIssues[k]))
        /\ pc' = "assign"
        /\ result' = result
  /\ UNCHANGED <<preview, cleanup, outputs, params, closedIssues, policy, slept, effectiveMode,
                 bypassCooldown, handovers, labelIndex, phase, batch, pending,
                 queries>>

\* createRefactorIssueFunc: addLabelsToLabelable; a failure is only logged
AddRefactorLabel ==
  /\ pc = "addLabel"
  /\ LET created == mutations[Len(mutations)].number
         k == CHOOSE j \in DOMAIN openIssues : openIssues[j].number = created
     IN /\ \E ok \in BOOLEAN :
             /\ mutations' = Append(mutations, Mutation("addLabels", created, ok))
             /\ openIssues' =
                  IF ok THEN [openIssues EXCEPT ![k].labels = @ \cup {RefactorLabel}]
                  ELSE openIssues
        /\ Return([number |-> created, title |-> AutoTitle, created |-> TRUE])
  /\ UNCHANGED <<preview, cleanup, outputs, params, closedIssues, policy, slept, effectiveMode,
                 bypassCooldown, handovers, labelIndex, phase, batch, pending,
                 issueToAssign, queries>>

\* assignNextIssue: open issues of the next priority label
QueryLabelIssues ==
  /\ pc = "labelQuery"
  /\ queries' = queries + 1
  /\ Enrich(OpenWithLabel(labelPriority[labelIndex], LabelPageSize), "priority")
  /\ UNCHANGED <<preview, cleanup, outputs, params, tracker, policy, slept, effectiveMode, bypassCooldown,
                 handovers, labelIndex, issueToAssign, result, mutations>>

\* nothing found ends the run, the hand-over is missing
NothingToAssign_NoHandover ==
  /\ Return(Null)
  /\ UNCHANGED <<bypassCooldown, handovers>>

\* assignNextIssue found nothing: hand over to handleRefactorMode(false)
NothingToAssign ==
  IF ~createRefactorIssue
    THEN /\ Return(Null)
         /\ UNCHANGED <<bypassCooldown, handovers>>
    ELSE /\ pc' = "refactorQuery"
         /\ bypassCooldown' = FALSE
         /\ handovers' = handovers + 1
         /\ result' = result

\* assignNextIssue: the priority loop after the lookups of one label
SelectPriorityIssue ==
  /\ pc = "enrich" /\ pending = {} /\ phase = "priority"
  /\ LET found == findAssignableIssueWithRequiredLabel(
                    batch, allowParentIssues, skipLabels, requiredLabel)
     IN IF found # Null
          THEN /\ issueToAssign' = found
               /\ pc' = "assign"
               /\ UNCHANGED <<labelIndex, bypassCooldown, handovers, result>>
          ELSE /\ issueToAssign' = issueToAssign
               /\ IF labelIndex < Len(labelPriority)
                    THEN /\ labelIndex' = labelIndex + 1
                         /\ pc' = "labelQuery"
                         /\ UNCHANGED <<bypassCooldown, handovers, result>>
                    ELSE IF labelOverride = ""
                      THEN /\ pc' = "fallbackQuery"
                           /\ UNCHANGED <<labelIndex, bypassCooldown, handovers,
                                          result>>
                      ELSE /\ NothingToAssign
                           /\ UNCHANGED labelIndex
  /\ UNCHANGED <<preview, cleanup, outputs, params, tracker, policy, slept, effectiveMode, phase, batch,
                 pending, queries, mutations>>

\* assignNextIssue: all open issues without a priority label
QueryOtherIssues ==
  /\ pc = "fallbackQuery"
  /\ queries' = queries + 1
  /\ Enrich(SelectSeq(AllOpen, LAMBDA i : i.labels \cap PriorityLabelSet = {}),
            "fallback")
  /\ UNCHANGED <<preview, cleanup, outputs, params, tracker, policy, slept, effectiveMode, bypassCooldown,
                 handovers, labelIndex, issueToAssign, result, mutations>>

\* assignNextIssue: the fallback after its lookups
SelectOtherIssue ==
  /\ pc = "enrich" /\ pending = {} /\ phase = "fallback"
  /\ LET found == findAssignableIssueWithRequiredLabel(
                    batch, allowParentIssues, skipLabels, requiredLabel)
     IN IF found # Null
          THEN /\ issueToAssign' = found
               /\ pc' = "assign"
               /\ UNCHANGED <<bypassCooldown, handovers, result>>
          ELSE /\ issueToAssign' = issueToAssign
               /\ NothingToAssign
  /\ UNCHANGED <<preview, cleanup, outputs, params, tracker, policy, slept, effectiveMode, labelIndex,
                 phase, batch, pending, queries, mutations>>

\* the result of the assignment is not returned
handleAssignment_ReturnsNothing ==
  /\ pc = "assign"
  /\ IF dryRun
       THEN UNCHANGED <<openIssues, mutations>>
       ELSE LET k == CHOOSE j \in DOMAIN openIssues :
                       openIssues[j].number = issueToAssign.number
            IN /\ openIssues' = [openIssues EXCEPT
                                   ![k].assignees = @ \cup {CopilotLogin}]
               /\ mutations' = Append(mutations,
                    Mutation("addAssignees", issueToAssign.number, TRUE))
  /\ Return(Null)
  /\ UNCHANGED <<preview, cleanup, outputs, params, closedIssues, policy, slept, effectiveMode,
                 bypassCooldown, handovers, labelIndex, phase, batch, pending,
                 issueToAssign, queries>>

\* the dry-run branch is missing
handleAssignment_IgnoresDryRun ==
  /\ pc = "assign"
  /\ LET k == CHOOSE j \in DOMAIN openIssues :
                openIssues[j].number = issueToAssign.number
     IN /\ openIssues' = [openIssues EXCEPT
                            ![k].assignees = @ \cup {CopilotLogin}]
        /\ mutations' = Append(mutations,
             Mutation("addAssignees", issueToAssign.number, TRUE))
  /\ Return([number |-> issueToAssign.number, title |-> issueToAssign.title,
             created |-> FALSE])
  /\ UNCHANGED <<preview, cleanup, outputs, params, closedIssues, policy, slept, effectiveMode,
                 bypassCooldown, handovers, labelIndex, phase, batch, pending,
                 issueToAssign, queries>>

\* handleAssignment: report in dry run, else addAssigneesToAssignable
handleAssignment ==
  /\ pc = "assign"
  /\ IF dryRun
       THEN UNCHANGED <<openIssues, mutations>>
       ELSE LET k == CHOOSE j \in DOMAIN openIssues :
                       openIssues[j].number = issueToAssign.number
            IN /\ openIssues' = [openIssues EXCEPT
                                   ![k].assignees = @ \cup {CopilotLogin}]
               /\ mutations' = Append(mutations,
                    Mutation("addAssignees", issueToAssign.number, TRUE))
  /\ Return([number |-> issueToAssign.number, title |-> issueToAssign.title,
             created |-> FALSE])
  /\ UNCHANGED <<preview, cleanup, outputs, params, closedIssues, policy, slept, effectiveMode,
                 bypassCooldown, handovers, labelIndex, phase, batch, pending,
                 issueToAssign, queries>>

Digits == <<"0", "1", "2", "3", "4", "5", "6", "7", "8", "9">>

\* Number.prototype.toString() of an issue number
NumberToString(n) ==
  IF n < 10 THEN Digits[n + 1]
  ELSE Digits[(n \div 10) + 1] \o Digits[(n % 10) + 1]

\* run() of index.js after executeWorkflow returned: the three outputs
SetOutputs ==
  /\ pc = "done"
  /\ outputs' =
       [assignedIssueNumber |->
          IF result = Null THEN "" ELSE NumberToString(result.number),
        assignmentMode |-> mode,
        failed |-> FALSE]
  /\ pc' = "exit"
  /\ UNCHANGED <<preview, cleanup, params, tracker, policy, slept, effectiveMode, bypassCooldown,
                 handovers, labelIndex, phase, batch, pending, issueToAssign,
                 result, queries, mutations>>

\* run() of index.js when executeWorkflow threw: core.setFailed
SetFailed ==
  /\ pc = "failed"
  /\ outputs' = [assignedIssueNumber |-> "", assignmentMode |-> "",
                 failed |-> TRUE]
  /\ pc' = "exit"
  /\ UNCHANGED <<preview, cleanup, params, tracker, policy, slept, effectiveMode, bypassCooldown,
                 handovers, labelIndex, phase, batch, pending, issueToAssign,
                 result, queries, mutations>>

Next ==
  \/ GraceWait
  \/ DetermineMode
  \/ FindCopilotBot
  \/ CheckCurrentWork
  \/ QueryRefactorIssues
  \/ SubIssueLookup
  \/ SelectRefactorIssue
  \/ CheckCooldown
  \/ FindRefactorLabel
  \/ CreateIssue
  \/ AddRefactorLabel
  \/ QueryLabelIssues
  \/ SelectPriorityIssue
  \/ QueryOtherIssues
  \/ SelectOtherIssue
  \/ handleAssignment
  \/ SetOutputs
  \/ SetFailed


\* ------------------------------------------------------------------ Init

EventNames == {"issues", "schedule"}
Modes == {"auto", "refactor"}

\* an open issue has at most one priority label, and at most one of: an
\* assignee, sub-issues, the skip label, the ready label
OpenIssueKinds ==
  {k \in [title : {ManualTitle},
          assignees : {{}, {CopilotLogin}, {Human}},
          labels : {base \cup extra :
                      base \in {{}, {"bug"}, {"documentation"}, {"refactor"},
                                {"enhancement"}},
                      extra \in {{}, {SkipLabel}, {ReadyLabel}}},
          subIssues : 0..MaxSubIssues] :
     Cardinality({t \in {"assignee", "parent", "extra"} :
        \/ t = "assignee" /\ k.assignees # {}
        \/ t = "parent" /\ k.subIssues > 0
        \/ t = "extra" /\ k.labels \cap {SkipLabel, ReadyLabel} # {}}) <= 1}

\* the open issues of the runs that explore the closed-issue window
CurrentWorkKinds ==
  {k \in OpenIssueKinds :
     /\ k.labels \in {{"bug"}, {"refactor"}}
     /\ k.assignees \in {{}, {CopilotLogin}}
     /\ k.subIssues = 0}

ClosedIssueKinds ==
  [title : {ManualTitle, AutoTitle},
   labels : {{}, {RefactorLabel}},
   closedAt : {Now - d * MS_PER_DAY : d \in 0..MaxCooldownDays}]

SeqsUpTo(S, n) == UNION {[1..k -> S] : k \in 0..n}

\* closed issues carry the lowest numbers, open issues the following ones
Numbered(s, from) ==
  [i \in DOMAIN s |-> [number |-> from + i] @@ s[i]]

\* no rerun is recorded
NoPreview ==
  /\ trace = <<>>
  /\ firstRun = Null

\* the cleanup script is not running
NoCleanup ==
  /\ releases = <<>>
  /\ releasesToKeep = <<>>
  /\ releasesToDelete = <<>>
  /\ deleted = <<>>

InitRun ==
  /\ pc = "start"
  /\ slept = 0
  /\ effectiveMode = "unset"
  /\ bypassCooldown = FALSE
  /\ handovers = 0
  /\ labelIndex = 0
  /\ phase = "none"
  /\ batch = <<>>
  /\ pending = {}
  /\ issueToAssign = Null
  /\ result = Null
  /\ queries = 0
  /\ mutations = <<>>
  /\ outputs = Null

\* runs over every trigger, mode and cadence setting and every closed-issue
\* window, with the default selection inputs
InitCadence ==
  /\ eventName \in EventNames
  /\ mode \in Modes
  /\ force \in BOOLEAN
  /\ dryRun \in BOOLEAN
  /\ createRefactorIssue \in BOOLEAN
  /\ refactorThreshold \in 1..MaxThreshold
  /\ waitSeconds \in 0..MaxWaitSeconds
  /\ refactorCooldownDays \in 0..MaxCooldownDays
  /\ labelOverride = ""
  /\ requiredLabel = ""
  /\ allowParentIssues = FALSE
  /\ skipLabels = <<SkipLabel>>
  /\ \E cs \in SeqsUpTo(ClosedIssueKinds, MaxClosed) :
       /\ closedIssues = Numbered(cs, 0)
       /\ \E os \in SeqsUpTo(CurrentWorkKinds, 1) :
            openIssues = Numbered(os, Len(cs))

\* manual and scheduled runs over every selection input and every list of
\* open issues, with nothing closed yet
InitSelection ==
  /\ eventName = "schedule"
  /\ mode \in Modes
  /\ force \in BOOLEAN
  /\ dryRun = FALSE
  /\ createRefactorIssue \in BOOLEAN
  /\ refactorThreshold = 1
  /\ waitSeconds = 0
  /\ refactorCooldownDays = MaxCooldownDays
  /\ labelOverride \in {"", "enhancement"}
  /\ requiredLabel \in {"", ReadyLabel}
  /\ allowParentIssues \in BOOLEAN
  /\ skipLabels \in {<<>>, <<SkipLabel>>}
  /\ closedIssues = <<>>
  /\ \E os \in SeqsUpTo(OpenIssueKinds, MaxOpen) :
       openIssues = Numbered(os, 0)

Init ==
  /\ \/ InitCadence
     \/ InitSelection
  /\ InitRun
  /\ call = Null
  /\ ret = Null
  /\ NoPreview
  /\ NoCleanup

Spec == Init /\ [][Next]_vars


\* --------------------------------------- a run triggered by a closed issue

\* issues the action created itself: assigned to Copilot at creation, the
\* refactor label attached or not
AutoCreatedKinds ==
  [title : {AutoTitle}, assignees : {{CopilotLogin}},
   labels : {{RefactorLabel}, {}}, subIssues : {0}]

\* the workflow waits for its trigger (on: issues: types: [closed])
InitClose ==
  /\ eventName = "issues"
  /\ mode \in Modes
  /\ force \in BOOLEAN
  /\ dryRun \in BOOLEAN
  /\ createRefactorIssue \in BOOLEAN
  /\ refactorThreshold \in 1..MaxThreshold
  /\ waitSeconds \in 0..MaxWaitSeconds
  /\ refactorCooldownDays \in 0..MaxCooldownDays
  /\ labelOverride = ""
  /\ requiredLabel = ""
  /\ allowParentIssues = FALSE
  /\ skipLabels = <<SkipLabel>>
  /\ \E cs \in SeqsUpTo(ClosedIssueKinds, MaxClosed - 1) :
       /\ closedIssues = Numbered(cs, 0)
       /\ \E os \in SeqsUpTo(AutoCreatedKinds \cup CurrentWorkKinds, MaxOpen) :
            /\ Len(os) > 0
            /\ openIssues = Numbered(os, Len(cs))
  /\ pc = "idle"
  /\ slept = 0
  /\ effectiveMode = "unset"
  /\ bypassCooldown = FALSE
  /\ handovers = 0
  /\ labelIndex = 0
  /\ phase = "none"
  /\ batch = <<>>
  /\ pending = {}
  /\ issueToAssign = Null
  /\ result = Null
  /\ queries = 0
  /\ mutations = <<>>
  /\ outputs = Null
  /\ call = Null
  /\ ret = Null
  /\ NoPreview
  /\ NoCleanup

\* an open issue is closed now: it becomes the most recently updated closed
\* issue, and the issues event starts the run
CloseIssue ==
  /\ pc = "idle"
  /\ \E i \in DOMAIN openIssues :
       /\ closedIssues' =
            <<[number |-> openIssues[i].number, title |-> openIssues[i].title,
               labels |-> openIssues[i].labels, closedAt |-> Now]>>
              \o closedIssues
       /\ openIssues' = SubSeq(openIssues, 1, i - 1)
                          \o SubSeq(openIssues, i + 1, Len(openIssues))
  /\ pc' = "start"
  /\ UNCHANGED <<preview, cleanup, params, policy, slept, effectiveMode, bypassCooldown,
                 handovers, labelIndex, phase, batch, pending, issueToAssign,
                 result, queries, mutations, outputs>>

CloseNext ==
  \/ CloseIssue
  \/ Next

CloseSpec == InitClose /\ [][CloseNext]_vars

\* ------------------------------ runs one after the other, and closures

\* the workflow waits for a trigger; nothing is closed yet
InitSerial ==
  /\ eventName = "issues"
  /\ mode \in Modes
  /\ force \in BOOLEAN
  /\ dryRun = FALSE
  /\ createRefactorIssue \in BOOLEAN
  /\ refactorThreshold = 1
  /\ waitSeconds \in 0..MaxWaitSeconds
  /\ refactorCooldownDays \in 0..MaxCooldownDays
  /\ labelOverride = ""
  /\ requiredLabel = ""
  /\ allowParentIssues = FALSE
  /\ skipLabels = <<SkipLabel>>
  /\ closedIssues = <<>>
  /\ \E os \in SeqsUpTo(AutoCreatedKinds \cup CurrentWorkKinds, MaxOpen) :
       openIssues = Numbered(os, 0)
  /\ pc = "idle"
  /\ slept = 0
  /\ effectiveMode = "unset"
  /\ bypassCooldown = FALSE
  /\ handovers = 0
  /\ labelIndex = 0
  /\ phase = "none"
  /\ batch = <<>>
  /\ pending = {}
  /\ issueToAssign = Null
  /\ result = Null
  /\ queries = 0
  /\ mutations = <<>>
  /\ outputs = Null
  /\ call = Null
  /\ ret = Null
  /\ NoPreview
  /\ NoCleanup

\* the schedule (or a manual dispatch) starts a run
Schedule ==
  /\ pc = "idle"
  /\ eventName' = "schedule"
  /\ pc' = "start"
  /\ UNCHANGED <<mode, labelOverride, requiredLabel, force, dryRun,
                 allowParentIssues, skipLabels, refactorThreshold,
                 createRefactorIssue, waitSeconds, refactorCooldownDays,
                 tracker, policy, preview, cleanup, slept, effectiveMode,
                 bypassCooldown, handovers, labelIndex, phase, batch, pending,
                 issueToAssign, result, queries, mutations, outputs>>

\* the run is over and the workflow waits for its next trigger; mutations
\* goes on as the log of what the action has done to the tracker
AwaitTrigger ==
  /\ pc = "exit"
  /\ Cardinality({i \in DOMAIN mutations :
                    mutations[i].op \in {"addAssignees", "createIssue"}})
       < MaxGiven
  /\ eventName' = "issues"
  /\ pc' = "idle"
  /\ slept' = 0
  /\ effectiveMode' = "unset"
  /\ bypassCooldown' = FALSE
  /\ handovers' = 0
  /\ labelIndex' = 0
  /\ phase' = "none"
  /\ batch' = <<>>
  /\ pending' = {}
  /\ issueToAssign' = Null
  /\ result' = Null
  /\ queries' = 0
  /\ outputs' = Null
  /\ UNCHANGED <<mode, labelOverride, requiredLabel, force, dryRun,
                 allowParentIssues, skipLabels, refactorThreshold,
                 createRefactorIssue, waitSeconds, refactorCooldownDays,
                 tracker, policy, preview, cleanup, mutations>>

SerialNext ==
  \/ Schedule
  \/ CloseIssue
  \/ AwaitTrigger
  \/ Next

SerialSpec == InitSerial /\ [][SerialNext]_vars

\* ------------------------- a run and its rerun with dry-run flipped

\* what a run has read and decided so far
Proj ==
  [pc |-> pc, slept |-> slept, effectiveMode |-> effectiveMode,
   bypassCooldown |-> bypassCooldown, handovers |-> handovers,
   labelIndex |-> labelIndex, phase |-> phase, batch |-> batch,
   pending |-> pending, issueToAssign |-> issueToAssign, queries |-> queries,
   openIssues |-> openIssues, closedIssues |-> closedIssues]

\* the run has selected an issue, reached createIssue, returned or thrown
Decided(p) == p.pc \in {"assign", "createIssue", "done", "failed"}

\* index of the current state in the trace, 0 when it is not in it
Position ==
  IF \E k \in DOMAIN trace : trace[k] = Proj
    THEN CHOOSE k \in DOMAIN trace : trace[k] = Proj
    ELSE 0

PreviewOpenKinds ==
  {k \in OpenIssueKinds :
     /\ k.labels \in {{}, {"bug"}, {"refactor"}, {"bug", SkipLabel}}
     /\ k.assignees # {Human}}

InitPreview ==
  /\ eventName \in EventNames
  /\ mode \in Modes
  /\ force \in BOOLEAN
  /\ dryRun \in BOOLEAN
  /\ createRefactorIssue \in BOOLEAN
  /\ refactorThreshold = 1
  /\ waitSeconds = 0
  /\ refactorCooldownDays = MaxCooldownDays
  /\ labelOverride = ""
  /\ requiredLabel = ""
  /\ allowParentIssues = FALSE
  /\ skipLabels = <<SkipLabel>>
  /\ \E cs \in SeqsUpTo(ClosedIssueKinds, MaxClosed - 1) :
       /\ closedIssues = Numbered(cs, 0)
       /\ \E os \in SeqsUpTo(PreviewOpenKinds, MaxOpen) :
            openIssues = Numbered(os, Len(cs))
  /\ InitRun
  /\ call = Null
  /\ ret = Null
  /\ trace = <<Proj>>
  /\ firstRun = Null
  /\ NoCleanup

\* a step of the first run, once its last state is on the trace
FirstRunStep ==
  /\ firstRun = Null
  /\ Decided(trace[Len(trace)]) \/ trace[Len(trace)] = Proj
  /\ Next

\* the state the first run reached is put on the trace, up to its decision
Record ==
  /\ firstRun = Null
  /\ ~Decided(trace[Len(trace)])
  /\ trace[Len(trace)] # Proj
  /\ trace' = Append(trace, Proj)
  /\ UNCHANGED <<params, tracker, run, policy, firstRun, cleanup>>

\* the first run is over: the same trigger on the same tracker, with the
\* dry-run input flipped
Rerun ==
  /\ firstRun = Null
  /\ pc = "exit"
  /\ firstRun' = [result |-> result, failed |-> outputs.failed,
                  dryRun |-> dryRun]
  /\ dryRun' = ~dryRun
  /\ openIssues' = trace[1].openIssues
  /\ closedIssues' = trace[1].closedIssues
  /\ pc' = "start"
  /\ slept' = 0
  /\ effectiveMode' = "unset"
  /\ bypassCooldown' = FALSE
  /\ handovers' = 0
  /\ labelIndex' = 0
  /\ phase' = "none"
  /\ batch' = <<>>
  /\ pending' = {}
  /\ issueToAssign' = Null
  /\ result' = Null
  /\ queries' = 0
  /\ mutations' = <<>>
  /\ outputs' = Null
  /\ UNCHANGED <<eventName, mode, labelOverride, requiredLabel, force,
                 allowParentIssues, skipLabels, refactorThreshold,
                 createRefactorIssue, waitSeconds, refactorCooldownDays,
                 policy, trace, cleanup>>

\* a step of the rerun that gets from the tracker the answers the first run
\* got, as long as the first run had not decided
RerunStep ==
  /\ firstRun # Null
  /\ Next
  /\ (Position # 0 /\ Position < Len(trace)) => Proj' = trace[Position + 1]

PreviewNext ==
  \/ FirstRunStep
  \/ Record
  \/ Rerun
  \/ RerunStep

PreviewSpec == InitPreview /\ [][PreviewNext]_vars

\* ------------------------------------------- scripts/cleanup-releases.js

\* the tags a repository draws from, in the order listReleases gives them
ReleaseTags ==
  <<Tag("v", <<3, 1, 0>>), Tag("v", <<1, 2>>), Tag("v", <<3, 10, 0>>),
    Tag("v", <<2, 0, 0>>), Tag("v", <<3, 0, 0>>), Tag("", <<2, 1, 0>>),
    Tag("v", <<0, 1, 0>>), Tag("v", <<3, 2, 0>>), Tag("V", <<2, 2, 0>>),
    Tag("v", <<1, 0, 1>>), Tag("v", <<1, 0, 0>>)>>

\* published half a month, one and a half months, six and a half months ago
ReleaseDates ==
  {ReleaseNow - (TicksPerMonth - 1), ReleaseNow - (TicksPerMonth + 1),
   ReleaseNow - (6 * TicksPerMonth + 1)}

\* lists of up to MaxReleases tag names, no tag twice, in the order of
\* ReleaseTags or in the opposite order
TagLists ==
  UNION {LET at == SortDescending(I)
             n == Len(at)
         IN {[k \in 1..n |-> ReleaseTags[at[k]]],
             [k \in 1..n |-> ReleaseTags[at[n + 1 - k]]]} :
         I \in {J \in SUBSET DOMAIN ReleaseTags : Cardinality(J) <= MaxReleases}}

\* the releases of a repository: no two of them share a tag
InitCleanup ==
  /\ \E ts \in TagLists :
       \E ds \in [DOMAIN ts -> ReleaseDates] :
         releases = [i \in DOMAIN ts |->
                       [tag_name |-> ts[i], published_at |-> ds[i]]]
  /\ dryRun \in BOOLEAN
  /\ pc = "listReleases"
  /\ releasesToKeep = <<>>
  /\ releasesToDelete = <<>>
  /\ deleted = <<>>
  /\ NoPreview
  /\ call = Null /\ ret = Null
  /\ eventName = "schedule" /\ mode = "auto" /\ force = FALSE
  /\ createRefactorIssue = TRUE /\ refactorThreshold = 1 /\ waitSeconds = 0
  /\ refactorCooldownDays = 0 /\ labelOverride = "" /\ requiredLabel = ""
  /\ allowParentIssues = FALSE /\ skipLabels = <<>>
  /\ openIssues = <<>> /\ closedIssues = <<>>
  /\ slept = 0 /\ effectiveMode = "unset" /\ bypassCooldown = FALSE
  /\ handovers = 0 /\ labelIndex = 0 /\ phase = "none" /\ batch = <<>>
  /\ pending = {} /\ issueToAssign = Null /\ result = Null /\ queries = 0
  /\ mutations = <<>> /\ outputs = Null

\* what the script leaves alone
CleanupFrame ==
  UNCHANGED <<params, tracker, policy, preview, slept, effectiveMode,
              bypassCooldown, handovers, labelIndex, phase, batch, pending,
              issueToAssign, result, queries, mutations, outputs, releases>>

\* listReleases answered: the releases to keep and to delete are worked out
\* and logged; a failed request ends the script with exit code 1
ListReleases ==
  /\ pc = "listReleases"
  /\ \E ok \in BOOLEAN :
       IF ~ok
         THEN /\ pc' = "exit1"
              /\ UNCHANGED <<releasesToKeep, releasesToDelete>>
       ELSE IF Len(releases) = 0
         THEN /\ pc' = "cleaned"
              /\ UNCHANGED <<releasesToKeep, releasesToDelete>>
       ELSE
         LET keep == filterReleasesToKeep(Take(releases, ReleasesPerPage))
             tagsToKeep == {keep[i].tag_name : i \in DOMAIN keep}
             toDelete == SelectSeq(Take(releases, ReleasesPerPage),
                                   LAMBDA r : r.tag_name \notin tagsToKeep)
         IN /\ releasesToKeep' = keep
            /\ releasesToDelete' = toDelete
            /\ pc' = IF Len(toDelete) = 0 \/ dryRun
                       THEN "cleaned" ELSE "deleteRelease"
  /\ UNCHANGED deleted
  /\ CleanupFrame

\* deleteRelease of the next release to delete; a failure is logged and the
\* loop goes on
DeleteRelease ==
  /\ pc = "deleteRelease"
  /\ \E ok \in BOOLEAN :
       /\ deleted' = Append(deleted,
            [tag_name |-> releasesToDelete[Len(deleted) + 1].tag_name,
             release |-> ok, ref |-> FALSE])
       /\ pc' = IF ok THEN "deleteRef"
                ELSE IF Len(deleted) + 1 = Len(releasesToDelete)
                  THEN "cleaned" ELSE "deleteRelease"
  /\ UNCHANGED <<releasesToKeep, releasesToDelete>>
  /\ CleanupFrame

\* deleteRef of the tag of the release just deleted; a failure is a warning
DeleteRef ==
  /\ pc = "deleteRef"
  /\ \E ok \in BOOLEAN :
       deleted' = [deleted EXCEPT ![Len(deleted)].ref = ok]
  /\ pc' = IF Len(deleted) = Len(releasesToDelete)
             THEN "cleaned" ELSE "deleteRelease"
  /\ UNCHANGED <<releasesToKeep, releasesToDelete>>
  /\ CleanupFrame

CleanupNext ==
  \/ ListReleases
  \/ DeleteRelease
  \/ DeleteRef

CleanupSpec == InitCleanup /\ [][CleanupNext]_vars

\* ------------------------------------------------- the helpers on their own

MaxAssigned == 2        \* issues assigned to Copilot handed to shouldAssignNewIssue
MaxSkipLabels == 2      \* entries of the skip-labels list

HalfDay == MS_PER_DAY \div 2

\* parsed issues as parseIssueData produces them
ParsedIssues ==
  [isAssigned : BOOLEAN, hasSubIssues : BOOLEAN,
   labels : SUBSET {"bug", SkipLabel, "refining"}]

\* skip-label lists without repetition, in either order
SkipLabelLists ==
  {l \in SeqsUpTo({SkipLabel, "refining", "wontfix"}, MaxSkipLabels) :
     \A i, j \in DOMAIN l : i # j => l[i] # l[j]}

\* closed issues whose close time is any half-day up to one half-day past the
\* longest cooldown, or one half-day ahead of the clock of the run
TimedClosedKinds ==
  [title : {ManualTitle, AutoTitle},
   labels : {{}, {RefactorLabel}},
   closedAt : {Now - h * HalfDay : h \in 0..(2 * MaxCooldownDays + 1)}
                \cup {Now + HalfDay}]

SkipCalls ==
  [fn : {"shouldSkipIssue"}, issue : ParsedIssues,
   allowParentIssues : BOOLEAN, skipLabels : SkipLabelLists]

AssignCalls ==
  [fn : {"shouldAssignNewIssue"},
   assignedIssues : SeqsUpTo([labels : SUBSET {"bug", RefactorLabel}], MaxAssigned),
   mode : Modes, force : BOOLEAN]

RecentCalls ==
  [fn : {"hasRecentRefactorIssue"},
   closedIssues : SeqsUpTo(ClosedIssueKinds, MaxClosed),
   count : 1..MaxThreshold]

CooldownCalls ==
  [fn : {"shouldWaitForCooldown"},
   closedIssues : {Numbered(cs, 0) : cs \in SeqsUpTo(TimedClosedKinds, MaxClosed)},
   cooldownDays : 0..MaxCooldownDays]

PolicyInit ==
  /\ \/ call \in SkipCalls
     \/ call \in AssignCalls
     \/ call \in RecentCalls
     \/ call \in CooldownCalls
  /\ ret = Null
  /\ pc = "policy"
  /\ eventName = "schedule" /\ mode = "auto" /\ force = FALSE /\ dryRun = FALSE
  /\ createRefactorIssue = TRUE /\ refactorThreshold = 1 /\ waitSeconds = 0
  /\ refactorCooldownDays = 0 /\ labelOverride = "" /\ requiredLabel = ""
  /\ allowParentIssues = FALSE /\ skipLabels = <<>>
  /\ openIssues = <<>> /\ closedIssues = <<>>
  /\ slept = 0 /\ effectiveMode = "unset" /\ bypassCooldown = FALSE
  /\ handovers = 0 /\ labelIndex = 0 /\ phase = "none" /\ batch = <<>>
  /\ pending = {} /\ issueToAssign = Null /\ result = Null /\ queries = 0
  /\ mutations = <<>> /\ outputs = Null
  /\ NoPreview
  /\ NoCleanup

EvalShouldSkipIssue ==
  /\ pc = "policy" /\ ret = Null /\ call.fn = "shouldSkipIssue"
  /\ ret' = shouldSkipIssue(call.issue, call.allowParentIssues, call.skipLabels)
  /\ UNCHANGED <<preview, cleanup, params, tracker, run, call>>

EvalShouldAssignNewIssue ==
  /\ pc = "policy" /\ ret = Null /\ call.fn = "shouldAssignNewIssue"
  /\ ret' = shouldAssignNewIssue(call.assignedIssues, call.mode, call.force)
  /\ UNCHANGED <<preview, cleanup, params, tracker, run, call>>

EvalHasRecentRefactorIssue ==
  /\ pc = "policy" /\ ret = Null /\ call.fn = "hasRecentRefactorIssue"
  /\ ret' = [value |-> hasRecentRefactorIssue(call.closedIssues, call.count)]
  /\ UNCHANGED <<preview, cleanup, params, tracker, run, call>>

EvalShouldWaitForCooldown ==
  /\ pc = "policy" /\ ret = Null /\ call.fn = "shouldWaitForCooldown"
  /\ ret' = shouldWaitForCooldown(call.closedIssues, call.cooldownDays, Now)
  /\ UNCHANGED <<preview, cleanup, params, tracker, run, call>>

PolicyNext ==
  \/ EvalShouldSkipIssue
  \/ EvalShouldAssignNewIssue
  \/ EvalHasRecentRefactorIssue
  \/ EvalShouldWaitForCooldown

PolicySpec == PolicyInit /\ [][PolicyNext]_vars


\* ---------------------------------------------------------------- claims

\* the open issue a run refers to by number
OpenIssue(number) ==
  openIssues[CHOOSE j \in DOMAIN openIssues : openIssues[j].number = number]

\* an open issue the selection policy accepts, by the tracker's own data
Assignable(o) ==
  /\ o.assignees = {}
  /\ o.subIssues = 0 \/ allowParentIssues
  /\ \A i \in DOMAIN skipLabels : skipLabels[i] \notin o.labels
  /\ requiredLabel = "" \/ requiredLabel \in o.labels

AssignedNumbers ==
  {mutations[i].number : i \in {j \in DOMAIN mutations :
                                  mutations[j].op = "addAssignees"}}

CreatedNumbers ==
  {mutations[i].number : i \in {j \in DOMAIN mutations :
                                  mutations[j].op = "createIssue"}}

AutoClosedWithinCooldown ==
  \E i \in 1..Min(Len(closedIssues), CooldownFetchCount) :
    /\ RefactorLabel \in closedIssues[i].labels
    /\ \E w \in DOMAIN closedIssues[i].title : closedIssues[i].title[w] = AutoMarker
    /\ Now - closedIssues[i].closedAt < refactorCooldownDays * MS_PER_DAY

\* none of the last refactorThreshold closed issues carries the refactor label
NoRefactorInLastThreshold ==
  \A i \in 1..Min(refactorThreshold, Len(closedIssues)) :
    RefactorLabel \notin closedIssues[i].labels

\* a run that went through refactor mode, found no assignable refactor issue
\* and ended without an error
EndedInRefactorModeWithoutCandidate ==
  /\ pc = "done" /\ phase = "refactor" /\ issueToAssign = Null

\* C2: with issue creation enabled, no assignable refactor issue and an
\* auto-created refactor issue closed within the cooldown, a run switched to
\* refactor mode by the threshold ends having created the issue (in a dry run:
\* the preview of it), and a run configured as refactor creates nothing.
C2_CooldownBypassOnlyWhenThresholdTriggered ==
  (createRefactorIssue /\ AutoClosedWithinCooldown
     /\ EndedInRefactorModeWithoutCandidate)
  => /\ (eventName = "issues" /\ mode = "auto" /\ NoRefactorInLastThreshold)
          => /\ result # Null /\ result.created
             /\ ~dryRun => result.number \in CreatedNumbers
     /\ mode = "refactor" => (result = Null /\ CreatedNumbers = {})

\* C2 witness: a threshold-triggered run created the issue inside the cooldown.
C2_Witness ==
  /\ createRefactorIssue /\ AutoClosedWithinCooldown
  /\ EndedInRefactorModeWithoutCandidate
  /\ eventName = "issues" /\ mode = "auto" /\ NoRefactorInLastThreshold
  /\ ~dryRun /\ result # Null /\ result.number \in CreatedNumbers

\* the run is inside handleRefactorMode as Step 3 called it
InRefactorModeFromRouting ==
  /\ handovers = 0
  /\ \/ pc \in {"refactorQuery", "cooldown", "findLabel", "createIssue", "addLabel"}
     \/ pc = "enrich" /\ phase = "refactor"

\* C3: once determined, the effective mode is refactor exactly when the mode
\* is configured as refactor, or the trigger is an issue event, the mode auto
\* and none of the first refactorThreshold closed issues carries the refactor
\* label; the cooldown bypass is set exactly in that second case, and a
\* scheduled auto run keeps its mode.
C3_EffectiveMode ==
  /\ effectiveMode # "unset"
       => /\ effectiveMode = "refactor"
               <=> \/ mode = "refactor"
                   \/ /\ eventName = "issues" /\ mode = "auto"
                      /\ NoRefactorInLastThreshold
          /\ (eventName = "schedule" /\ mode = "auto") => effectiveMode = "auto"
  /\ bypassCooldown
       => eventName = "issues" /\ mode = "auto" /\ NoRefactorInLastThreshold
  /\ InRefactorModeFromRouting
       => (bypassCooldown <=> (eventName = "issues" /\ mode = "auto"))

\* C3 witness: the run switched to refactor mode although the closed issue
\* just outside the threshold carries the refactor label, and bypasses the
\* cooldown.
C3_Witness ==
  /\ eventName = "issues" /\ mode = "auto" /\ effectiveMode = "refactor"
  /\ Len(closedIssues) > refactorThreshold
  /\ RefactorLabel \in closedIssues[refactorThreshold + 1].labels
  /\ InRefactorModeFromRouting /\ bypassCooldown

\* C4: a step of a dry run changes neither the tracker nor the list of
\* mutations issued, which stays empty.
C4_DryRunNoMutation ==
  [][dryRun => /\ openIssues' = openIssues
               /\ closedIssues' = closedIssues
               /\ mutations = <<>> /\ mutations' = <<>>]_vars

\* C4 witness: a dry run ended on the preview of an assignment.
C4_Witness ==
  /\ dryRun /\ pc = "done" /\ result # Null /\ ~result.created
  /\ mutations = <<>>

\* C5: shouldWaitForCooldown answers wait whenever some closed issue, at any
\* position, carries the refactor label and the [AUTO] marker and was closed
\* less than cooldownDays ago; when no issue has the marker it never does.
C5_CooldownAnyPosition ==
  (call.fn = "shouldWaitForCooldown" /\ ret # Null)
  => /\ (\E i \in DOMAIN call.closedIssues :
           /\ RefactorLabel \in call.closedIssues[i].labels
           /\ \E w \in DOMAIN call.closedIssues[i].title :
                call.closedIssues[i].title[w] = AutoMarker
           /\ Now - call.closedIssues[i].closedAt
                < call.cooldownDays * MS_PER_DAY)
          => ret.shouldWait
     /\ (\A i \in DOMAIN call.closedIssues :
           \A w \in DOMAIN call.closedIssues[i].title :
             call.closedIssues[i].title[w] # AutoMarker)
          => ~ret.shouldWait

\* C5 witness: the answer is wait because of the second issue of the window,
\* the first being a refactor issue closed as recently but without the marker.
C5_Witness ==
  /\ call.fn = "shouldWaitForCooldown" /\ ret # Null /\ ret.shouldWait
  /\ Len(call.closedIssues) = 2
  /\ call.closedIssues[1].title = ManualTitle
  /\ RefactorLabel \in call.closedIssues[1].labels
  /\ call.closedIssues[1].closedAt = Now
  /\ ret.number = call.closedIssues[2].number

\* C6: with cooldownDays = 0 shouldWaitForCooldown never answers wait.
C6_ZeroCooldownNeverWaits ==
  (call.fn = "shouldWaitForCooldown" /\ ret # Null /\ call.cooldownDays = 0)
  => ~ret.shouldWait

\* C7: with issues assigned and force set, shouldAssignNewIssue answers assign
\* in both modes.
C7_ForceOverrides ==
  (call.fn = "shouldAssignNewIssue" /\ ret # Null
     /\ Len(call.assignedIssues) > 0 /\ call.force)
  => ret.shouldAssign

\* C7 witness: forced in refactor mode with a refactor issue already assigned.
C7_Witness ==
  /\ call.fn = "shouldAssignNewIssue" /\ ret # Null
  /\ call.force /\ call.mode = "refactor"
  /\ \E i \in DOMAIN call.assignedIssues :
       RefactorLabel \in call.assignedIssues[i].labels
  /\ ret.shouldAssign

\* C8: without force, issues assigned mean no assignment in both modes; in
\* refactor mode the reason is the refactor-issue one exactly when some
\* assigned issue carries the refactor label and the other-issues one
\* otherwise; with nothing assigned the answer is assign.
C8_NoForceBlocks ==
  (call.fn = "shouldAssignNewIssue" /\ ret # Null /\ ~call.force)
  => LET hasRefactor == \E i \in DOMAIN call.assignedIssues :
                          RefactorLabel \in call.assignedIssues[i].labels
     IN /\ Len(call.assignedIssues) = 0 => ret.shouldAssign
        /\ Len(call.assignedIssues) > 0
             => /\ ~ret.shouldAssign
                /\ call.mode = "refactor"
                     => ret.reason =
                          IF hasRefactor
                            THEN "Copilot already has a refactor issue assigned"
                            ELSE "Copilot is working on other issues, skipping refactor creation"

\* C8 witness: refactor mode, two issues assigned of which only the second
\* carries the refactor label.
C8_Witness ==
  /\ call.fn = "shouldAssignNewIssue" /\ ret # Null
  /\ ~call.force /\ call.mode = "refactor"
  /\ Len(call.assignedIssues) = 2
  /\ RefactorLabel \notin call.assignedIssues[1].labels
  /\ RefactorLabel \in call.assignedIssues[2].labels
  /\ ~ret.shouldAssign

\* C9: a candidate that is assigned and has sub-issues is skipped as already
\* assigned, whatever allowParentIssues and the skip labels are.
C9_AssignedBeforeSubIssues ==
  (call.fn = "shouldSkipIssue" /\ ret # Null
     /\ call.issue.isAssigned /\ call.issue.hasSubIssues)
  => (ret.shouldSkip /\ ret.reason = "already assigned")

\* C9 witness: assigned, with sub-issues, parents not allowed and a skip
\* label on the issue as well.
C9_Witness ==
  /\ call.fn = "shouldSkipIssue" /\ ret # Null
  /\ call.issue.isAssigned /\ call.issue.hasSubIssues
  /\ ~call.allowParentIssues
  /\ \E i \in DOMAIN call.skipLabels : call.skipLabels[i] \in call.issue.labels
  /\ ret.reason = "already assigned"

PriorityOrder == <<"bug", "documentation", "refactor", "enhancement">>

Proceeded == phase # "none"

\* the agent has the issue the run returned (in a dry run: it is reported)
AgentHasWork ==
  /\ result # Null
  /\ ~dryRun
       => /\ result.number \in AssignedNumbers \cup CreatedNumbers
          /\ CopilotLogin \in OpenIssue(result.number).assignees

\* C11 as stated: with issue creation enabled, every auto-configured run that
\* got past the current-work check and ended without error ended with the
\* agent having work.
C11_AlwaysHasWork ==
  (createRefactorIssue /\ mode = "auto" /\ pc = "done" /\ Proceeded)
  => AgentHasWork

\* C11 (amended): the same, for the runs the refactor cooldown does not stop:
\* the run was switched to refactor mode by the threshold, or no auto-created
\* refactor issue among the closed issues read was closed less than
\* cooldownDays ago.
C11_HasWorkUnlessCooldown ==
  (createRefactorIssue /\ mode = "auto" /\ pc = "done" /\ Proceeded
     /\ (effectiveMode = "refactor" \/ ~AutoClosedWithinCooldown))
  => AgentHasWork

\* C11 witness: an auto run found nothing to assign in the priority loop and
\* the fallback, handed over to refactor mode and created the issue.
C11_Witness ==
  /\ createRefactorIssue /\ mode = "auto" /\ effectiveMode = "auto"
  /\ pc = "done" /\ handovers = 1 /\ ~dryRun
  /\ result # Null /\ result.number \in CreatedNumbers
  /\ CopilotLogin \in OpenIssue(result.number).assignees

\* C12: with createRefactorIssue false no run reaches issue creation or
\* issues a create-issue mutation, and a run through refactor mode returns
\* nothing only when no open refactor issue is assignable.
C12_NoCreationWhenDisabled ==
  ~createRefactorIssue
  => /\ CreatedNumbers = {}
     /\ pc \notin {"cooldown", "findLabel", "createIssue", "addLabel"}
     /\ result # Null => ~result.created
     /\ (pc = "done" /\ phase = "refactor" /\ result = Null)
          => \A i \in DOMAIN openIssues :
               RefactorLabel \in openIssues[i].labels
                 => ~Assignable(openIssues[i])

\* C12 witness: creation disabled, the threshold switched the run to refactor
\* mode, and it assigned an existing refactor issue.
C12_Witness ==
  /\ ~createRefactorIssue /\ pc = "done" /\ ~dryRun
  /\ eventName = "issues" /\ mode = "auto" /\ effectiveMode = "refactor"
  /\ result # Null /\ result.number \in AssignedNumbers
  /\ RefactorLabel \in OpenIssue(result.number).labels

\* the issue whose close triggered the run is an auto-created refactor issue
ClosedAutoCreatedRefactor ==
  /\ pc # "idle"
  /\ RefactorLabel \in closedIssues[1].labels
  /\ \E w \in DOMAIN closedIssues[1].title : closedIssues[1].title[w] = AutoMarker
  /\ closedIssues[1].closedAt = Now

C14_OutputIsEffectiveMode ==
  (pc = "exit" /\ ~outputs.failed) => outputs.assignmentMode = effectiveMode

GraceSeconds ==
  IF eventName = "issues" /\ waitSeconds > 0 THEN waitSeconds ELSE 0

\* C15: before the wait the run has issued no tracker call; once past it, it
\* has waited waitSeconds if the trigger is an issue event and waitSeconds > 0,
\* and not at all otherwise.
C15_GraceBeforeAnyCall ==
  /\ pc = "start" => (queries = 0 /\ mutations = <<>> /\ slept = 0)
  /\ pc # "start" => slept = GraceSeconds
  /\ (queries > 0 \/ mutations # <<>>) => (pc # "start" /\ slept = GraceSeconds)

\* C15 witness: the first tracker call of an issue-event run, after its wait.
C15_Witness ==
  /\ eventName = "issues" /\ waitSeconds > 0
  /\ slept = waitSeconds /\ queries = 1

\* the add-label mutation of the run failed
LabelAttachFailed ==
  \E i \in DOMAIN mutations : mutations[i].op = "addLabels" /\ ~mutations[i].ok

\* C16: after a failed add-label the run ends normally and returns the issue
\* it created, which is open, assigned to the agent and without the refactor
\* label.
C16_LabelFailureKeepsIssue ==
  LabelAttachFailed
  => /\ pc \in {"done", "exit"}
     /\ pc = "exit" => ~outputs.failed
     /\ result # Null /\ result.created
     /\ result.number \in CreatedNumbers
     /\ \E i \in DOMAIN openIssues :
          /\ openIssues[i].number = result.number
          /\ openIssues[i].title = AutoTitle
          /\ CopilotLogin \in openIssues[i].assignees
          /\ RefactorLabel \notin openIssues[i].labels

\* C16 witness: the run has set its outputs after a failed add-label.
C16_Witness ==
  /\ LabelAttachFailed /\ pc = "exit"
  /\ outputs.assignedIssueNumber = NumberToString(result.number)

\* the run threw
Failed == pc = "failed" \/ (pc = "exit" /\ outputs.failed)

\* C17: a run that fails has issued no mutation and returns no issue; it
\* failed at the bot lookup, before any candidate was read, or in refactor
\* mode at the label lookup, before the create-issue mutation.
C17_ConfigErrorNoMutation ==
  Failed
  => /\ mutations = <<>>
     /\ result = Null /\ issueToAssign = Null
     /\ phase \in {"none", "refactor"}
     /\ phase = "none" => queries = 1 + (IF eventName = "issues" /\ mode = "auto"
                                           THEN 1 ELSE 0)

\* C17 witness: the refactor label was missing when creation was reached.
C17_Witness ==
  /\ pc = "exit" /\ outputs.failed /\ phase = "refactor" /\ ~dryRun
  /\ createRefactorIssue /\ mutations = <<>>

\* C18: a completing sub-issue lookup never fails the run; it sets the count
\* of its own candidate to the real count or to 0 and leaves the other
\* candidates and lookups as they are.
C18_LookupFailureCountsZero ==
  /\ [](pc = "enrich"
          => \A i \in DOMAIN batch :
               batch[i].trackedIssues \in {0, SubIssuesOf(batch[i].number)})
  /\ [][pc = "enrich" => pc' # "failed"]_vars
  /\ [][(pc = "enrich" /\ pending' # pending)
          => /\ pc' = "enrich"
             /\ \E i \in pending :
                  /\ pending' = pending \ {i}
                  /\ \A j \in DOMAIN batch \ {i} : batch'[j] = batch[j]]_vars

\* C18 witness: a parent issue, parents not allowed, was selected because its
\* lookup failed, while the lookup of the other candidate succeeded.
C18_Witness ==
  /\ pc = "assign" /\ ~allowParentIssues
  /\ OpenIssue(issueToAssign.number).subIssues > 0
  /\ Len(batch) = 2

\* C19: a run that ends normally without an issue has issued no mutation, and
\* when it ended at the current-work check its last tracker call is the query
\* the check reads.
C19_NonMatchNoSideEffect ==
  (pc \in {"done", "exit"} /\ result = Null /\ (pc = "exit" => ~outputs.failed))
  => /\ mutations = <<>>
     /\ ~Proceeded => queries = 2 + (IF eventName = "issues" /\ mode = "auto"
                                       THEN 1 ELSE 0)

\* C19 witness: the run ended at the current-work check.
C19_Witness ==
  /\ pc = "done" /\ result = Null /\ ~Proceeded /\ ~force
  /\ \E i \in DOMAIN openIssues : CopilotLogin \in openIssues[i].assignees

TerminalMutations ==
  {i \in DOMAIN mutations : mutations[i].op \in {"addAssignees", "createIssue"}}

\* C20: a run issues at most one add-assignee or create-issue mutation, an
\* add-label only right after its create-issue and on the issue created, and
\* ends on exactly one of: nothing, one assignment, one creation.
C20_SingleTerminalAction ==
  /\ Cardinality(TerminalMutations) <= 1
  /\ \A i \in DOMAIN mutations :
       mutations[i].op = "addLabels"
         => /\ i = 2
            /\ mutations[1].op = "createIssue"
            /\ mutations[1].number = mutations[2].number
  /\ Len(mutations) <= 2
  /\ (pc = "done" /\ ~dryRun)
       => \/ result = Null /\ mutations = <<>>
          \/ /\ result # Null /\ ~result.created
             /\ mutations = <<Mutation("addAssignees", result.number, TRUE)>>
          \/ /\ result # Null /\ result.created
             /\ Len(mutations) = 2
             /\ mutations[1] = Mutation("createIssue", result.number, TRUE)
             /\ mutations[2].op = "addLabels"

\* C20 witness: a run ended on a creation with its label attached.
C20_Witness ==
  /\ pc = "done" /\ Len(mutations) = 2
  /\ mutations[1].op = "createIssue" /\ mutations[2].op = "addLabels"
  /\ mutations[2].ok


\* ---- C21: dry run and real run decide alike
\* Rerun with the dry-run input flipped on the same tracker, a run that is
\* given the answers of the first run can follow the first run state by
\* state up to its decision, and it ends as the first run did: both fail,
\* or both return nothing, or both return the same existing issue, or both
\* return a refactor issue, the dry run its mock issue and the real run the
\* issue it created.
SameDecision ==
  LET dry == IF dryRun THEN result ELSE firstRun.result
      real == IF dryRun THEN firstRun.result ELSE result
  IN /\ firstRun.failed = outputs.failed
     /\ (dry = Null) = (real = Null)
     /\ dry # Null =>
          /\ dry.created = real.created
          /\ ~dry.created => dry = real
          /\ dry.created =>
               /\ dry = DryRunIssue
               /\ real.number # 0
               /\ real.title = AutoTitle

Filtered ==
  /\ pc \in {"deleteRelease", "deleteRef", "cleaned"}
  /\ releases # <<>>

Kept(r) == \E i \in DOMAIN releasesToKeep : releasesToKeep[i] = r

ToDelete(r) == \E i \in DOMAIN releasesToDelete : releasesToDelete[i] = r

DeletionAttempted(r) ==
  \E i \in DOMAIN deleted : deleted[i].tag_name = r.tag_name

ValidTag(r) == parseVersion(r.tag_name) # Null

VersionOf(r) == parseVersion(r.tag_name)

\* number of major versions among the releases that are higher than major
MajorRank(major) ==
  Cardinality({VersionOf(releases[i]).major : i \in
                 {j \in DOMAIN releases :
                    /\ ValidTag(releases[j])
                    /\ VersionOf(releases[j]).major > major}})

\* number of releases of the same major with a higher version
VersionRank(r) ==
  Cardinality({j \in DOMAIN releases :
    /\ ValidTag(releases[j])
    /\ VersionOf(releases[j]).major = VersionOf(r).major
    /\ VersionBefore(VersionOf(releases[j]), VersionOf(r))})

PublishedWithinMonths(r, months) ==
  r.published_at > ReleaseNow - months * TicksPerMonth

\* ---- C22: keep 5, 3 and 2 releases of the three highest majors
\* A release published more than 1 month ago is retained exactly when it is
\* one of the 5 highest versions of the highest major, or one of the 3
\* highest versions of the second highest major and younger than 6 months,
\* or one of the 2 highest versions of the third highest major and younger
\* than 6 months.
C22_KeepFiveThreeTwo ==
  Filtered =>
    \A i \in DOMAIN releases :
      LET r == releases[i]
      IN r.published_at < ReleaseNow - TicksPerMonth =>
           (Kept(r) <=>
              /\ ValidTag(r)
              /\ \/ /\ MajorRank(VersionOf(r).major) = 0
                    /\ VersionRank(r) < 5
                 \/ /\ MajorRank(VersionOf(r).major) = 1
                    /\ VersionRank(r) < 3
                    /\ PublishedWithinMonths(r, 6)
                 \/ /\ MajorRank(VersionOf(r).major) = 2
                    /\ VersionRank(r) < 2
                    /\ PublishedWithinMonths(r, 6))

C24_InvalidTagUntouched ==
  \A i \in DOMAIN releases :
    ~ValidTag(releases[i]) =>
      /\ ~Kept(releases[i])
      /\ ~ToDelete(releases[i])
      /\ ~DeletionAttempted(releases[i])

\* ---- C25: filtering is idempotent
\* filterReleasesToKeep applied to its own output, at the same current
\* time, returns that output.
C25_FilterIdempotent ==
  Filtered => filterReleasesToKeep(releasesToKeep) = releasesToKeep

\* the filter dropped one of four releases with valid tags
C25_Witness ==
  /\ pc = "cleaned"
  /\ Len(releases) = 4
  /\ Len(releasesToKeep) = 3
  /\ \A i \in DOMAIN releases : ValidTag(releases[i])


\* the issue as the run read it: its node in the batch the selection ran over
ReadAs(number) ==
  batch[CHOOSE i \in DOMAIN batch : batch[i].number = number]

\* ---- C26: only eligible issues are assigned
\* The issue a run has selected for assignment, and every existing issue it
\* has assigned, is in the batch the run read, and there it has no assignee,
\* no label of skipLabels and, unless allowParentIssues, no sub-issues.
EligibleAsRead(number) ==
  /\ \E i \in DOMAIN batch : batch[i].number = number
  /\ ReadAs(number).assignees = {}
  /\ \A i \in DOMAIN skipLabels : skipLabels[i] \notin ReadAs(number).labels
  /\ allowParentIssues \/ ReadAs(number).trackedIssues = 0

C26_AssignedWasEligible ==
  /\ pc = "assign" => EligibleAsRead(issueToAssign.number)
  /\ \A n \in AssignedNumbers : EligibleAsRead(n)

\* a forced run assigned an issue after passing over an older one that a
\* human holds
C26_Witness ==
  /\ force
  /\ \E n \in AssignedNumbers :
       \E j \in DOMAIN openIssues :
         /\ openIssues[j].number < n
         /\ Human \in openIssues[j].assignees
         /\ \A i \in DOMAIN skipLabels :
              skipLabels[i] \notin openIssues[j].labels


\* numbers of the issues the action has assigned or created, over all runs
GivenNumbers == {mutations[i].number : i \in TerminalMutations}

\* open issues the agent holds that the action gave to it
HeldFromAction ==
  {j \in DOMAIN openIssues :
     /\ CopilotLogin \in openIssues[j].assignees
     /\ openIssues[j].number \in GivenNumbers}

\* ---- C27: one issue at a time without force
\* Over runs that follow one another and closures between them, with force
\* off: the action assigns or creates an issue only when no open issue is
\* assigned to the agent, and the agent never holds more than one open issue
\* that the action gave to it.
C27_OneIssueAtATime ==
  /\ [](~force => Cardinality(HeldFromAction) <= 1)
  /\ [][(~force /\ TerminalMutations' # TerminalMutations)
          => \A j \in DOMAIN openIssues :
               CopilotLogin \notin openIssues[j].assignees]_vars

\* the action gave a second issue after the first one was closed
C27_Witness ==
  /\ ~force
  /\ Cardinality(TerminalMutations) = 2
  /\ Cardinality(HeldFromAction) = 1
  /\ \E i \in DOMAIN closedIssues : closedIssues[i].number \in GivenNumbers


\* entry i of the batch passes the skip rules and the required label
EligibleEntry(i) ==
  /\ batch[i].assignees = {}
  /\ \A k \in DOMAIN skipLabels : skipLabels[k] \notin batch[i].labels
  /\ allowParentIssues \/ batch[i].trackedIssues = 0
  /\ requiredLabel = "" \/ requiredLabel \in batch[i].labels

\* ---- C28: selection after all lookups, whatever their order
\* While the lookups of a batch are in flight the batch stays in the order
\* of the query (creation time ascending), each entry is the issue as
\* queried with a sub-issue count that only its own lookup sets; the run
\* leaves the lookups only when none is in flight, and the issue it selects
\* is the first entry in query order that passes the rules, so it does not
\* depend on the order in which the lookups completed.
C28_SelectionAfterAllLookups ==
  /\ [](pc = "enrich" =>
         \A i \in DOMAIN batch :
           /\ batch[i] = [Node(OpenIssue(batch[i].number)) EXCEPT
                            !.trackedIssues = batch[i].trackedIssues]
           /\ batch[i].trackedIssues \in {0, SubIssuesOf(batch[i].number)}
           /\ i \in pending => batch[i].trackedIssues = 0
           /\ \A j \in DOMAIN batch :
                i < j => batch[i].number < batch[j].number)
  /\ [](pc = "assign" =>
         \A i \in DOMAIN batch :
           EligibleEntry(i) => issueToAssign.number <= batch[i].number)
  /\ [][(pc = "enrich" /\ pc' # "enrich") => pending = {}]_vars

\* two candidates were looked up, the older one turned out to have
\* sub-issues and the younger one is selected
C28_Witness ==
  /\ pc = "assign"
  /\ Len(batch) = 2
  /\ batch[1].assignees = {}
  /\ batch[1].trackedIssues > 0
  /\ issueToAssign.number = batch[2].number


\* the run works in auto mode with a label override
AutoWithOverride ==
  /\ mode = "auto"
  /\ effectiveMode # "refactor"
  /\ labelOverride # ""

\* the label search of the run looks at the override label only, and the
\* scan of the other open issues is not made
SearchesOverrideOnly ==
  /\ pc # "fallbackQuery"
  /\ phase # "fallback"
  /\ phase = "priority" =>
       /\ labelIndex <= 1
       /\ \A i \in DOMAIN batch : labelOverride \in batch[i].labels

\* issues the run has selected for assignment or assigned
SelectedNumbers ==
  AssignedNumbers \cup (IF pc = "assign" THEN {issueToAssign.number} ELSE {})

\* ---- C29: the label override
\* Original statement: in auto mode with a label override only the override
\* label is searched, the other open issues are not scanned, and every
\* existing issue the run assigns carries the override label.
C29_OnlyOverrideLabelAssigned ==
  AutoWithOverride =>
    /\ SearchesOverrideOnly
    /\ \A n \in SelectedNumbers : labelOverride \in OpenIssue(n).labels

\* C29, amended: in auto mode with a label override only the override label
\* is searched and the other open issues are not scanned; every existing
\* issue the run assigns carries the override label, or it carries the
\* refactor label and was selected by refactor handling after the search
\* for the override label found nothing and createRefactorIssue is enabled.
C29_OverrideOrRefactorHandover ==
  AutoWithOverride =>
    /\ SearchesOverrideOnly
    /\ \A n \in SelectedNumbers :
         \/ labelOverride \in OpenIssue(n).labels
         \/ /\ handovers = 1
            /\ createRefactorIssue
            /\ phase = "refactor"
            /\ RefactorLabel \in OpenIssue(n).labels

\* the run assigned an issue with the override label although an older bug
\* issue was assignable
C29_Witness ==
  /\ AutoWithOverride
  /\ \E n \in AssignedNumbers :
       /\ labelOverride \in OpenIssue(n).labels
       /\ \E j \in DOMAIN openIssues :
            /\ openIssues[j].number < n
            /\ "bug" \in openIssues[j].labels
            /\ Assignable(openIssues[j])


\* how far the run has come: every step of a run moves it forward
Stage ==
  CASE pc = "start" -> 0
    [] pc = "determineMode" -> 1
    [] pc = "findBot" -> 2
    [] pc = "checkCurrent" -> 3
    [] pc = "labelQuery" -> 2 + 2 * labelIndex
    [] pc = "enrich" /\ phase = "priority" -> 3 + 2 * labelIndex
    [] pc = "fallbackQuery" -> 12
    [] pc = "enrich" /\ phase = "fallback" -> 13
    [] pc = "refactorQuery" -> 14
    [] pc = "enrich" /\ phase = "refactor" -> 15
    [] pc = "cooldown" -> 16
    [] pc = "findLabel" -> 17
    [] pc = "createIssue" -> 18
    [] pc = "addLabel" -> 19
    [] pc = "assign" -> 20
    [] pc \in {"done", "failed"} -> 21
    [] pc = "exit" -> 22

Progress ==
  Stage * (Len(openIssues) + 1)
    + (IF pc = "enrich" THEN Len(batch) - Cardinality(pending) ELSE 0)

\* ---- C30: a run ends after a bounded number of tracker calls
\* A run that has not ended can always take a step, every step moves the
\* run forward on a bounded scale, and the reads and mutations it issues
\* stay under a bound given by the number of open issues; the label search
\* hands over to refactor handling at most once, and refactor handling
\* never goes back to the label search.
C30_RunTerminates ==
  /\ [](pc # "exit" => ENABLED Next)
  /\ [][Progress' > Progress]_vars
  /\ [](Progress <= 23 * (Len(openIssues) + 1))
  /\ [](queries + Len(mutations) <= 13 + 6 * Len(openIssues))
  /\ [](handovers <= 1)
  /\ [][phase = "refactor"
          => /\ phase' = "refactor"
             /\ pc' \notin {"labelQuery", "fallbackQuery"}
             /\ handovers' = handovers]_vars

\* the label search went through the four labels and the other issues,
\* handed over, and the run ended with a created issue
C30_Witness ==
  /\ pc = "exit"
  /\ handovers = 1
  /\ mode = "auto"
  /\ openIssues # <<>>
  /\ result # Null
  /\ result.created

====
